---- MODULE Spec2Model ----
(***************************************************************************)
(* Compsheet: the filter engine of App.tsx (filteredData), the column      *)
(* format classifier of lib/formatUtils.ts (detectColumnFormat) and the    *)
(* criteria list handlers of components/CriteriaPanel.tsx.                 *)
(*                                                                         *)
(* Representation.                                                         *)
(*  - A JavaScript string is a sequence of one-character strings, so that  *)
(*    trim, toLowerCase, includes, replace and Number are computed         *)
(*    character by character.                                              *)
(*  - A JavaScript number is an integer count of hundredths (0.5 is 50,    *)
(*    30 is 3000); NaN is the value NaN.  Every number of the model has at *)
(*    most two decimals and every bound is a whole number, so bound / 100  *)
(*    is exact here as it is in IEEE arithmetic for these values.          *)
(*  - A cell value is a record tagged with its JavaScript type.            *)
(*  - An object (a row) is the sequence of its <<key, value>> properties   *)
(*    in insertion order.                                                  *)
(*  - An optional field (min?, max?, text?) is None or Some(string).       *)
(***************************************************************************)
EXTENDS Integers, Sequences, FiniteSets, TLC

\* One unit (1.0) in hundredths.
Scale == 10 * 10

NaN == -999999999

IsNaN(n) == n = NaN

Range(s) == {s[i] : i \in 1..Len(s)}

----------------------------------------------------------------------------
(* Strings *)

Digits == <<"0", "1", "2", "3", "4", "5", "6", "7", "8", "9">>

DigitSet == Range(Digits)

DigitVal(ch) == (CHOOSE i \in 1..10 : Digits[i] = ch) - 1

\* The letters toLowerCase changes, each with its lower-case form.
LowerCs ==
    "A" :> "a" @@ "B" :> "b" @@ "C" :> "c" @@ "D" :> "d" @@ "E" :> "e" @@ "F" :> "f" @@
    "G" :> "g" @@ "H" :> "h" @@ "I" :> "i" @@ "J" :> "j" @@ "K" :> "k" @@ "L" :> "l" @@
    "M" :> "m" @@ "N" :> "n" @@ "O" :> "o" @@ "P" :> "p" @@ "Q" :> "q" @@ "R" :> "r" @@
    "S" :> "s" @@ "T" :> "t" @@ "U" :> "u" @@ "V" :> "v" @@ "W" :> "w" @@ "X" :> "x" @@
    "Y" :> "y" @@ "Z" :> "z"

LowerChar(ch) == IF ch \in DOMAIN LowerCs THEN LowerCs[ch] ELSE ch

RECURSIVE ToLowerCase(_)
\* String.prototype.toLowerCase
ToLowerCase(s) ==
    IF s = <<>> THEN <<>> ELSE <<LowerChar(Head(s))>> \o ToLowerCase(Tail(s))

\* String.prototype.includes
Includes(s, sub) ==
    \E k \in 0..(Len(s) - Len(sub)) : \A i \in 1..Len(sub) : s[k + i] = sub[i]

IsSpace(ch) == ch = " "

RECURSIVE TrimStart(_)
TrimStart(s) ==
    IF s # <<>> /\ IsSpace(Head(s)) THEN TrimStart(Tail(s)) ELSE s

RECURSIVE TrimEnd(_)
TrimEnd(s) ==
    IF s # <<>> /\ IsSpace(s[Len(s)]) THEN TrimEnd(SubSeq(s, 1, Len(s) - 1)) ELSE s

\* String.prototype.trim
Trim(s) == TrimEnd(TrimStart(s))

IsNumericChar(ch) == ch \in DigitSet \cup {".", "-"}

\* s.replace(/[^0-9.\-]/g, '')
StripNonNumeric(s) == SelectSeq(s, IsNumericChar)

RECURSIVE DigitsToNat(_)
DigitsToNat(ds) ==
    IF ds = <<>> THEN 0
    ELSE 10 * DigitsToNat(SubSeq(ds, 1, Len(ds) - 1)) + DigitVal(ds[Len(ds)])

AllDigits(s) == \A i \in 1..Len(s) : s[i] \in DigitSet

\* The fraction digits of a decimal literal, in hundredths.
FractionHundredths(fs) ==
    IF Len(fs) = 0 THEN 0
    ELSE IF Len(fs) = 1 THEN 10 * DigitVal(fs[1])
    ELSE 10 * DigitVal(fs[1]) + DigitVal(fs[2])

\* An unsigned decimal literal: digits, optionally a '.', digits; at least one digit.
UnsignedToNumber(u) ==
    IF \E k \in 1..Len(u) : u[k] = "."
    THEN LET k == CHOOSE j \in 1..Len(u) : u[j] = "."
             ip == SubSeq(u, 1, k - 1)
             fp == SubSeq(u, k + 1, Len(u))
         IN IF AllDigits(ip) /\ AllDigits(fp) /\ Len(ip) + Len(fp) > 0
            THEN DigitsToNat(ip) * Scale + FractionHundredths(fp)
            ELSE NaN
    ELSE IF u # <<>> /\ AllDigits(u) THEN DigitsToNat(u) * Scale ELSE NaN

\* Number(s) for a string s: surrounding whitespace is ignored, the empty
\* string is 0, a decimal literal with an optional '-' is its value, anything
\* else is NaN.
StringToNumber(s) ==
    LET t == Trim(s)
    IN IF t = <<>> THEN 0
       ELSE IF Head(t) = "-"
            THEN LET u == UnsignedToNumber(Tail(t))
                 IN IF IsNaN(u) THEN NaN ELSE 0 - u
            ELSE UnsignedToNumber(t)

RECURSIVE NatToDigits(_)
NatToDigits(n) ==
    IF n < 10 THEN <<Digits[n + 1]>>
    ELSE NatToDigits(n \div 10) \o <<Digits[(n % 10) + 1]>>

\* String(n) for a number n: shortest decimal form, no trailing zeros.
NumberToString(n) ==
    LET a == IF n < 0 THEN 0 - n ELSE n
        ip == NatToDigits(a \div Scale)
        f == a % Scale
        fp == IF f = 0 THEN <<>>
              ELSE IF f % 10 = 0 THEN <<".", Digits[(f \div 10) + 1]>>
              ELSE <<".", Digits[(f \div 10) + 1], Digits[(f % 10) + 1]>>
    IN (IF n < 0 THEN <<"-">> ELSE <<>>) \o ip \o fp

----------------------------------------------------------------------------
(* Cell values *)

NumV(n) == [t |-> "number", n |-> n, s |-> <<>>]

StrV(s) == [t |-> "string", n |-> 0, s |-> s]

Null == [t |-> "object", n |-> 0, s |-> <<>>]

Undefined == [t |-> "undefined", n |-> 0, s |-> <<>>]

EmptyStr == StrV(<<>>)

\* typeof v
TypeOf(v) == v.t

\* String(v)
ToStr(v) ==
    IF v.t = "number" THEN NumberToString(v.n)
    ELSE IF v.t = "string" THEN v.s
    ELSE IF v.t = "object" THEN <<"n", "u", "l", "l">>
    ELSE <<"u", "n", "d", "e", "f", "i", "n", "e", "d">>

\* Number(v)
ToNumber(v) ==
    IF v.t = "number" THEN v.n
    ELSE IF v.t = "string" THEN StringToNumber(v.s)
    ELSE IF v.t = "object" THEN 0
    ELSE NaN

\* Optional fields of a Criterion.
None == [def |-> FALSE, s |-> <<>>]

Some(s) == [def |-> TRUE, s |-> s]

\* row[col]
Get(row, col) ==
    IF \E k \in 1..Len(row) : row[k][1] = col
    THEN row[CHOOSE k \in 1..Len(row) : row[k][1] = col][2]
    ELSE Undefined

\* Object.keys(row)
ObjectKeys(row) == [k \in 1..Len(row) |-> row[k][1]]

----------------------------------------------------------------------------
(* lib/formatUtils.ts: detectColumnFormat *)

\* RatioNames without the two words, the substrings with a slash only.
RatioNamesSlashOnly == {<<"e", "v", "/">>,
                        <<"/", "r", "e", "v">>,
                        <<"/", "f", "c", "f">>,
                        <<"/", "e", "b", "i", "t", "d", "a">>,
                        <<"/", "g">>}

RatioNames == {<<"e", "v", "/">>,
               <<"/", "r", "e", "v">>,
               <<"/", "f", "c", "f">>,
               <<"/", "e", "b", "i", "t", "d", "a">>,
               <<"/", "g">>,
               <<"r", "a", "t", "i", "o">>,
               <<"m", "u", "l", "t", "i", "p", "l", "e">>}

PercentNames == {<<"m", "a", "r", "g", "i", "n">>,
                 <<"g", "r", "o", "w", "t", "h">>,
                 <<"%">>,
                 <<"y", "i", "e", "l", "d">>,
                 <<"r", "o", "e">>,
                 <<"r", "o", "a">>}

CurrencyNames == {<<"$">>,
                  <<"p", "r", "i", "c", "e">>,
                  <<"c", "a", "p">>,
                  <<"r", "e", "v", "e", "n", "u", "e">>,
                  <<"f", "c", "f">>,
                  <<"e", "b", "i", "t", "d", "a">>,
                  <<"e", "v", " ", "(">>}

IncludesAny(s, subs) == \E sub \in subs : Includes(s, sub)

Abs(n) == IF n < 0 THEN 0 - n ELSE n

RECURSIVE InsertAsc(_, _)
InsertAsc(x, s) ==
    IF s = <<>> THEN <<x>>
    ELSE IF x <= Head(s) THEN <<x>> \o s
    ELSE <<Head(s)>> \o InsertAsc(x, Tail(s))

RECURSIVE SortAsc(_)
\* ns.sort((a, b) => a - b)
SortAsc(ns) == IF ns = <<>> THEN <<>> ELSE InsertAsc(Head(ns), SortAsc(Tail(ns)))

\* v => typeof v === 'number' ? v : Number(String(v).replace(/[^0-9.\-]/g, ''))
CoerceSample(v) ==
    IF TypeOf(v) = "number" THEN v.n
    ELSE StringToNumber(StripNonNumeric(ToStr(v)))

NotNaN(n) == ~IsNaN(n)

\* values.map(coerce).filter(n => !isNaN(n))
NumericSamples(values) ==
    SelectSeq([i \in 1..Len(values) |-> CoerceSample(values[i])], NotNaN)

\* MedianAbs taking the lower of the two middle elements of an even count.
MedianAbsLower(nums) ==
    LET sorted == SortAsc([i \in 1..Len(nums) |-> Abs(nums[i])])
    IN sorted[((Len(sorted) - 1) \div 2) + 1]

\* sorted[Math.floor(sorted.length / 2)] of the absolute values
MedianAbs(nums) ==
    LET sorted == SortAsc([i \in 1..Len(nums) |-> Abs(nums[i])])
    IN sorted[(Len(sorted) \div 2) + 1]

\* DecimalThreshold taken as 1, that is 100%.
DecimalThresholdHalved == 2 \div 2

DecimalThreshold == 2

MillionsThreshold == 10000

\* IsNumberTyped counting whatever Number reads as a number.
IsNumberLike(v) == ~IsNaN(ToNumber(v))

IsNumberTyped(v) == TypeOf(v) = "number" /\ ~IsNaN(v.n)

detectColumnFormat(columnName, values) ==
    LET lowerName == ToLowerCase(columnName)
    IN IF IncludesAny(lowerName, RatioNames) THEN "decimal"
       ELSE IF IncludesAny(lowerName, PercentNames)
       THEN LET numericValues == NumericSamples(values)
            IN IF Len(numericValues) > 0
                  /\ MedianAbs(numericValues) < DecimalThreshold * Scale
               THEN "percentage_decimal"
               ELSE "percentage"
       ELSE IF IncludesAny(lowerName, CurrencyNames)
       THEN LET numericValues == NumericSamples(values)
            IN IF Len(numericValues) > 0
                  /\ MedianAbs(numericValues) < MillionsThreshold * Scale
               THEN "currency_millions"
               ELSE "currency"
       ELSE IF 2 * Len(SelectSeq(values, IsNumberTyped)) > Len(values)
       THEN "number"
       ELSE "text"

----------------------------------------------------------------------------
(* components/CriteriaPanel.tsx: isNumericColumn *)

TextOnlyNames == {<<"t", "i", "c", "k", "e", "r">>,
                  <<"n", "a", "m", "e">>,
                  <<"c", "a", "t", "e", "g", "o", "r", "y">>,
                  <<"s", "e", "c", "t", "o", "r">>,
                  <<"v", "e", "r", "t", "i", "c", "a", "l">>,
                  <<"h", "o", "r", "i", "z", "o", "n", "t", "a", "l">>,
                  <<"a", "p", "p">>,
                  <<"i", "n", "f", "r", "a">>,
                  <<"c", "o", "m", "p", "s">>,
                  <<"c", "l", "o", "u", "d">>,
                  <<"h", "y", "b", "r", "i", "d">>}

\* v !== undefined && v !== '' && v !== null
IsFilled(v) == v # Undefined /\ v # EmptyStr /\ v # Null

\* !isNaN(Number(v)) && typeof v !== 'string'
IsNumericCell(v) == ~IsNaN(ToNumber(v)) /\ TypeOf(v) # "string"

\* data.map(row => row[columnName])
ColumnCells(rows, col) == [i \in 1..Len(rows) |-> Get(rows[i], col)]

isNumericColumn(columnName, rows) ==
    LET lowerName == ToLowerCase(columnName)
    IN IF IncludesAny(lowerName, TextOnlyNames) THEN FALSE
       ELSE IF Len(rows) > 0
       THEN LET values == SelectSeq(ColumnCells(rows, columnName), IsFilled)
                numericValues == SelectSeq(values, IsNumericCell)
            IN 10 * Len(numericValues) > 7 * Len(values)
       ELSE TRUE

----------------------------------------------------------------------------
(* App.tsx: filteredData *)

\* HasMinFilter without the test for the empty string.
HasMinFilterDefined(c) == c.min.def

\* c.min !== undefined && c.min !== ''
HasMinFilter(c) == c.min.def /\ c.min.s # <<>>

\* c.max !== undefined && c.max !== ''
HasMaxFilter(c) == c.max.def /\ c.max.s # <<>>

\* c.text !== undefined && c.text.trim() !== ''
HasTextFilter(c) == c.text.def /\ Trim(c.text.s) # <<>>

\* IsEffective gated by the `active` flag.
IsEffectiveWhenActive(c) ==
    c.active /\ (HasMinFilter(c) \/ HasMaxFilter(c) \/ HasTextFilter(c))

IsEffective(c) == HasMinFilter(c) \/ HasMaxFilter(c) \/ HasTextFilter(c)

\* criteria.filter(c => ...)
effectiveCriteria(crit) == SelectSeq(crit, IsEffective)

\* v !== undefined && v !== ''
IsSample(v) == v # Undefined /\ v # EmptyStr

\* data.map(r => r[c.column]).filter(v => v !== undefined && v !== '')
SampleValues(rows, col) == SelectSeq(ColumnCells(rows, col), IsSample)

\* The columns of the effective criteria for which columnIsDecimal holds true.
columnIsDecimal(rows, eff) ==
    IF Len(rows) > 0
    THEN {eff[j].column : j \in {k \in 1..Len(eff) :
            detectColumnFormat(eff[k].column, SampleValues(rows, eff[k].column))
                = "percentage_decimal"}}
    ELSE {}

\* Number(val), and for a string that is NaN, Number of its numeric characters.
CoerceCell(val) ==
    LET numVal == ToNumber(val)
    IN IF IsNaN(numVal) /\ TypeOf(val) = "string"
       THEN StringToNumber(StripNonNumeric(val.s))
       ELSE numVal

\* The same coercion of a bound, which is a string.
CoerceBound(b) ==
    LET n == StringToNumber(b)
    IN IF IsNaN(n) THEN StringToNumber(StripNonNumeric(b)) ELSE n

PercentDivisor == 100

\* ScaleBound that leaves every bound as entered.
ScaleBoundNever(b, isDecimal) == b

\* min = min / 100 when the column is decimal
ScaleBound(b, isDecimal) ==
    IF IsNaN(b) THEN NaN
    ELSE IF isDecimal THEN b \div PercentDivisor
    ELSE b

\* MinCheck with an exclusive bound.
MinCheckStrict(numVal, c, isDecimal) ==
    LET min == ScaleBound(CoerceBound(c.min.s), isDecimal)
    IN ~(IsNaN(min) \/ numVal <= min)

\* isNaN(min) || numVal < min  does not hold
MinCheck(numVal, c, isDecimal) ==
    LET min == ScaleBound(CoerceBound(c.min.s), isDecimal)
    IN ~(IsNaN(min) \/ numVal < min)

\* isNaN(max) || numVal > max  does not hold
MaxCheck(numVal, c, isDecimal) ==
    LET max == ScaleBound(CoerceBound(c.max.s), isDecimal)
    IN ~(IsNaN(max) \/ numVal > max)

NumericCheck(val, c, isDecimal) ==
    LET numVal == CoerceCell(val)
    IN IF IsNaN(numVal) THEN FALSE
       ELSE IF HasMinFilter(c) /\ ~MinCheck(numVal, c, isDecimal) THEN FALSE
       ELSE IF HasMaxFilter(c) /\ ~MaxCheck(numVal, c, isDecimal) THEN FALSE
       ELSE TRUE

\* String(val).toLowerCase().includes(c.text.toLowerCase())
TextCheck(val, c) == Includes(ToLowerCase(ToStr(val)), ToLowerCase(c.text.s))

\* CriterionPasses whose test for an empty value leaves out null.
CriterionPassesNullUnchecked(row, c, decimalCols) ==
    LET val == Get(row, c.column)
    IN IF ~HasMinFilter(c) /\ ~HasMaxFilter(c) /\ ~HasTextFilter(c) THEN TRUE
       ELSE IF val = Undefined \/ val = EmptyStr THEN FALSE
       ELSE IF (HasMinFilter(c) \/ HasMaxFilter(c))
               /\ ~NumericCheck(val, c, c.column \in decimalCols) THEN FALSE
       ELSE IF HasTextFilter(c) /\ ~TextCheck(val, c) THEN FALSE
       ELSE TRUE

\* The body of effectiveCriteria.every(c => ...) for one row.
CriterionPasses(row, c, decimalCols) ==
    LET val == Get(row, c.column)
    IN IF ~HasMinFilter(c) /\ ~HasMaxFilter(c) /\ ~HasTextFilter(c) THEN TRUE
       ELSE IF val = Undefined \/ val = Null \/ val = EmptyStr THEN FALSE
       ELSE IF (HasMinFilter(c) \/ HasMaxFilter(c))
               /\ ~NumericCheck(val, c, c.column \in decimalCols) THEN FALSE
       ELSE IF HasTextFilter(c) /\ ~TextCheck(val, c) THEN FALSE
       ELSE TRUE

\* RowPasses with some in place of every.
RowPassesSome(row, eff, decimalCols) ==
    \E j \in 1..Len(eff) : CriterionPasses(row, eff[j], decimalCols)

\* effectiveCriteria.every(c => ...)
RowPasses(row, eff, decimalCols) ==
    \A j \in 1..Len(eff) : CriterionPasses(row, eff[j], decimalCols)

Reverse(s) == [i \in 1..Len(s) |-> s[Len(s) + 1 - i]]

\* FilteredData that collects the passing rows last to first.
FilteredDataReversed(rows, crit) ==
    LET eff == effectiveCriteria(crit)
    IN IF Len(eff) = 0 THEN rows
       ELSE LET decimalCols == columnIsDecimal(rows, eff)
                Keep(row) == RowPasses(row, eff, decimalCols)
            IN Reverse(SelectSeq(rows, Keep))

\* The useMemo body: the rows of data that pass, in the order of data.
FilteredData(rows, crit) ==
    LET eff == effectiveCriteria(crit)
    IN IF Len(eff) = 0 THEN rows
       ELSE LET decimalCols == columnIsDecimal(rows, eff)
                Keep(row) == RowPasses(row, eff, decimalCols)
            IN SelectSeq(rows, Keep)

----------------------------------------------------------------------------
(* Inputs *)

Ticker == <<"T", "i", "c", "k", "e", "r">>

LongName == <<"L", "o", "n", "g", " ", "N", "a", "m", "e">>

Margin == <<"M", "a", "r", "g", "i", "n">>

Price == <<"P", "r", "i", "c", "e">>

Sector == <<"S", "e", "c", "t", "o", "r">>

S_A == <<"A">>

S_B == <<"B">>

\* The rows of the bound-scaling scenario: Margin stored as fractions.
DataScenario ==
    << <<<<Ticker, StrV(S_A)>>, <<Margin, NumV(50)>>>>,
       <<<<Ticker, StrV(S_B)>>, <<Margin, NumV(20)>>>> >>

\* Margin 0.3, 0.2 and 3: fractions and one whole-number percentage.
DataMixed ==
    << <<<<Ticker, StrV(S_A)>>, <<Margin, NumV(30)>>>>,
       <<<<Ticker, StrV(S_B)>>, <<Margin, NumV(20)>>>>,
       <<<<Ticker, StrV(<<"C">>)>>, <<Margin, NumV(300)>>>> >>

\* A numeric column with formatted, unparsable, null, empty and absent cells.
DataPrice ==
    << <<<<Ticker, StrV(S_A)>>, <<Price, NumV(3000)>>>>,
       <<<<Ticker, StrV(S_B)>>, <<Price, NumV(1000)>>>>,
       <<<<Ticker, StrV(<<"C">>)>>, <<Price, NumV(5000)>>>>,
       <<<<Ticker, StrV(<<"D">>)>>, <<Price, NumV(2950)>>>>,
       <<<<Ticker, StrV(<<"E">>)>>, <<Price, NumV(-500)>>>>,
       <<<<Ticker, StrV(<<"F">>)>>, <<Price, StrV(<<"a", "b", "c">>)>>>>,
       <<<<Ticker, StrV(<<"G">>)>>, <<Price, StrV(<<"-">>)>>>>,
       <<<<Ticker, StrV(<<"H">>)>>, <<Price, Null>>>>,
       <<<<Ticker, StrV(<<"I">>)>>, <<Price, EmptyStr>>>>,
       <<<<Ticker, StrV(<<"J">>)>>>> >>

\* A second numeric column whose strings are formatted numbers.
DataFormatted ==
    << <<<<Ticker, StrV(S_A)>>, <<Price, NumV(3000)>>>>,
       <<<<Ticker, StrV(S_B)>>, <<Price, NumV(3001)>>>>,
       <<<<Ticker, StrV(<<"C">>)>>, <<Price, NumV(2999)>>>>,
       <<<<Ticker, StrV(<<"D">>)>>, <<Price, StrV(<<"$", "4", "5">>)>>>>,
       <<<<Ticker, StrV(<<"E">>)>>, <<Price, Undefined>>>> >>

\* A text column.
DataSector ==
    << <<<<Ticker, StrV(S_A)>>, <<Sector, StrV(<<"A", "b", "c">>)>>>>,
       <<<<Ticker, StrV(S_B)>>, <<Sector, StrV(<<"D", "a", "t", "a", " ", "C", "o">>)>>>>,
       <<<<Ticker, StrV(<<"C">>)>>, <<Sector, NumV(3000)>>>>,
       <<<<Ticker, StrV(<<"D">>)>>, <<Sector, Null>>>>,
       <<<<Ticker, StrV(<<"E">>)>>, <<Sector, StrV(<<"b", "c", "d">>)>>>> >>

\* Only the identity column: the column list offered to the criteria is empty.
DataTickerOnly ==
    << <<<<Ticker, StrV(S_A)>>>>,
       <<<<Ticker, StrV(S_B)>>>> >>

\* A text column and a numeric column side by side.
DataTwoColumns ==
    << <<<<Ticker, StrV(S_A)>>, <<Sector, StrV(<<"A", "b", "c">>)>>, <<Margin, NumV(50)>>>>,
       <<<<Ticker, StrV(S_B)>>, <<Sector, StrV(<<"b", "c", "d">>)>>, <<Margin, NumV(20)>>>> >>

DataSets ==
    {DataScenario, DataMixed, DataPrice, DataFormatted, DataSector, DataTickerOnly,
     DataTwoColumns}

\* What the user types into the Min and Max inputs.
BoundInputs == {<<>>, <<"3", "0">>}

\* What the user types into the Text input.
TextInputs == {<<" ", " ">>, <<"A", " ">>, <<"b", "c">>}

\* The values Math.random().toString(36).substr(2, 9) may return.
Ids == {"k1", "k2"}

\* The largest number of criteria in the list.
MaxCriteria == 2

----------------------------------------------------------------------------
(* State *)

VARIABLES
    data,            \* App: useState<DataRow[]>
    criteria,        \* App: useState<Criterion[]>
    colName,         \* detectColumnFormat: the argument columnName
    samples,         \* detectColumnFormat: the argument values
    formatTag,       \* detectColumnFormat: the value returned
    tableData,       \* DataTable: the prop data
    visibleColumns,  \* DataTable: the prop visibleColumns
    sortConfig,      \* DataTable: useState<SortConfig>
    localStorage,    \* window.localStorage: the items compsheet_data and compsheet_criteria
    editingState,    \* pill-style CriteriaPanel: useState<{id, tempCriterion} | null>
    selectedTicker,  \* AnalysisPage: useState(savedState.selectedTicker)
    timeFilter,      \* AnalysisPage: useState(savedState.timeFilter)
    chartData,       \* AnalysisPage: useState<ChartDataPoint[]>, named by the fetch it came from
    chartLoading,    \* AnalysisPage: useState(false)
    pending,         \* AnalysisPage: the calls of loadChartData awaiting fetchChartData
    compTickers,     \* AnalysisPage: useState<string[]>(savedState.compTickers)
    includeFiltered, \* AnalysisPage: useState(savedState.includeFiltered)
    charts           \* ChartsPage: useState<ChartConfig[]>

classifierVars == <<colName, samples, formatTag>>

tableVars == <<tableData, visibleColumns, sortConfig>>

vars == <<data, criteria, colName, samples, formatTag, tableData, visibleColumns,
          sortConfig, localStorage, editingState, selectedTicker, timeFilter, chartData,
          chartLoading, pending, compTickers, includeFiltered, charts>>

chartVars == <<selectedTicker, timeFilter, chartData, chartLoading, pending>>

compVars == <<compTickers, includeFiltered>>

\* The state of the components other than App, the classifier and the table.
pageVars == <<editingState, chartVars, compVars, charts>>

\* No call of detectColumnFormat has returned yet.
Unclassified == "unclassified"

\* SortConfig: null
NoSort == [column |-> <<>>, direction |-> "none"]

\* No call of the classifier under way.
ClassifierIdle ==
    /\ colName = <<>>
    /\ samples = <<>>
    /\ formatTag = Unclassified

\* editingState: null
NoEditing ==
    [id |-> "",
     tempCriterion |-> [id |-> "", column |-> <<>>, min |-> None, max |-> None,
                        text |-> None, active |-> FALSE]]

\* useState<ChartDataPoint[]>([]): no fetch has delivered a chart.
NoChart == [sym |-> <<>>, range |-> ""]

\* The AnalysisPage as it is first rendered without a saved state.
AnalysisFresh ==
    /\ selectedTicker = <<>>
    /\ timeFilter = "1y"
    /\ chartData = NoChart
    /\ chartLoading = FALSE
    /\ pending = <<>>
    /\ compTickers = <<>>
    /\ includeFiltered = FALSE

\* `Chart ${id}`
ChartTitle(id) == <<"C", "h", "a", "r", "t", " ">> \o id

\* [{ id: '1', title: 'Chart 1' }]
DefaultCharts == <<[id |-> <<"1">>, title |-> ChartTitle(<<"1">>)]>>

\* No other component mounted.
PagesIdle == editingState = NoEditing /\ AnalysisFresh /\ charts = DefaultCharts

\* No DataTable mounted.
TableIdle ==
    /\ tableData = <<>>
    /\ visibleColumns = <<>>
    /\ sortConfig = NoSort

\* localStorage.getItem(key) === null
NoItem == [saved |-> FALSE, json |-> <<>>]

\* An item: the text JSON.stringify wrote, held as the value it denotes.
Item(json) == [saved |-> TRUE, json |-> json]

\* JSON.stringify of a cell: NaN is written as null.
StringifyCell(v) == IF v.t = "number" /\ IsNaN(v.n) THEN Null ELSE v

\* JSON.stringify of a row: a property whose value is undefined is left out.
StringifyRow(row) ==
    LET IsWritten(prop) == prop[2] # Undefined
        written == SelectSeq(row, IsWritten)
    IN [k \in 1..Len(written) |-> <<written[k][1], StringifyCell(written[k][2])>>]

\* JSON.stringify(data)
StringifyData(rows) == [i \in 1..Len(rows) |-> StringifyRow(rows[i])]

\* JSON.stringify(criteria): min, max and text are strings or undefined, and
\* an undefined field is left out, which reads back as undefined.
StringifyCriteria(list) == list

\* JSON.parse(saved)
JSONParse(item) == item.json

\* No item of the app in the storage.
StorageEmpty == [compsheet_data |-> NoItem, compsheet_criteria |-> NoItem]

\* The effect on [data]: the rows are written when there are any.
SaveData(store, rows) ==
    IF Len(rows) > 0
    THEN [store EXCEPT !.compsheet_data = Item(StringifyData(rows))]
    ELSE store

\* The criteria are written when there are any.
SaveCriteriaWhenAny(store, list) ==
    IF Len(list) > 0
    THEN [store EXCEPT !.compsheet_criteria = Item(StringifyCriteria(list))]
    ELSE store

\* The effect on [criteria]: the list is written, the empty list too.
SaveCriteria(store, list) ==
    [store EXCEPT !.compsheet_criteria = Item(StringifyCriteria(list))]

\* App: useMemo(() => ..., [data, criteria]), the value every render sees.
filteredData == FilteredData(data, criteria)

IsDataColumn(key) == key # Ticker /\ key # LongName

\* Object.keys(data[0]).filter(key => key !== 'Ticker' && key !== 'Long Name')
columns(rows) ==
    IF Len(rows) = 0 THEN <<>> ELSE SelectSeq(ObjectKeys(rows[1]), IsDataColumn)

\* c.min || ''  as shown in an input
Shown(opt) == IF opt.def THEN opt.s ELSE <<>>

\* The state after the first render and its effects.
Init ==
    /\ data \in DataSets
    /\ criteria = <<>>
    /\ localStorage = SaveCriteria(SaveData(StorageEmpty, data), criteria)
    /\ ClassifierIdle
    /\ TableIdle
    /\ PagesIdle

----------------------------------------------------------------------------
(* components/CriteriaPanel.tsx: the handlers *)

newCriterion(id, cols) ==
    [id |-> id,
     column |-> IF Len(cols) > 0 THEN cols[1] ELSE <<>>,
     min |-> None, max |-> None, text |-> None,
     active |-> TRUE]

\* { ...c, [field]: value }
SetField(c, field, value) ==
    IF field = "active" THEN [c EXCEPT !.active = value]
    ELSE IF field = "column" THEN [c EXCEPT !.column = value]
    ELSE IF field = "min" THEN [c EXCEPT !.min = Some(value)]
    ELSE IF field = "max" THEN [c EXCEPT !.max = Some(value)]
    ELSE [c EXCEPT !.text = Some(value)]

\* The update applied to every criterion of the list, whatever its id.
UpdatedCriteriaEvery(crit, id, field, value, rows) ==
    [i \in 1..Len(crit) |->
        LET updatedCriterion == SetField(crit[i], field, value)
        IN IF field = "column" /\ ~isNumericColumn(value, rows)
           THEN [updatedCriterion EXCEPT !.min = None, !.max = None]
           ELSE updatedCriterion]

\* criteria.map(c => c.id === id ? updatedCriterion : c)
UpdatedCriteria(crit, id, field, value, rows) ==
    [i \in 1..Len(crit) |->
        IF crit[i].id = id
        THEN LET updatedCriterion == SetField(crit[i], field, value)
             IN IF field = "column" /\ ~isNumericColumn(value, rows)
                THEN [updatedCriterion EXCEPT !.min = None, !.max = None]
                ELSE updatedCriterion
        ELSE crit[i]]

\* criteria.map(c => c.id === id ? { ...c, [field]: value } : c)
DirectlyUpdatedCriteria(crit, id, field, value) ==
    [i \in 1..Len(crit) |->
        IF crit[i].id = id THEN SetField(crit[i], field, value) ELSE crit[i]]

\* criteria.filter(c => c.id !== id)
RemainingCriteria(crit, id) ==
    LET Other(c) == c.id # id IN SelectSeq(crit, Other)

\* The values the control of `field` in the row of criterion c can deliver:
\* the checkbox its negation, the select another offered column, an input a
\* text other than the one it shows.  Min and Max are inputs only for a
\* numeric column, Text only for any other.
FieldInputs(c, field, rows) ==
    IF field = "active" THEN {~c.active}
    ELSE IF field = "column" THEN Range(columns(rows)) \ {c.column}
    ELSE IF field = "min"
    THEN IF isNumericColumn(c.column, rows) THEN BoundInputs \ {Shown(c.min)} ELSE {}
    ELSE IF field = "max"
    THEN IF isNumericColumn(c.column, rows) THEN BoundInputs \ {Shown(c.max)} ELSE {}
    ELSE IF isNumericColumn(c.column, rows) THEN {} ELSE TextInputs \ {Shown(c.text)}

Fields == {"active", "column", "min", "max", "text"}

addCriterion(id) ==
    /\ Len(data) > 0
    /\ Len(criteria) < MaxCriteria
    /\ criteria' = Append(criteria, newCriterion(id, columns(data)))
    /\ data' = data
    /\ localStorage' = SaveCriteria(localStorage, criteria')
    /\ UNCHANGED <<classifierVars, tableVars, pageVars>>

\* The update without the clearing of min and max.
updateCriterionKeepBounds(k, field, value) ==
    /\ Len(data) > 0
    /\ k \in 1..Len(criteria)
    /\ value \in FieldInputs(criteria[k], field, data)
    /\ criteria' = DirectlyUpdatedCriteria(criteria, criteria[k].id, field, value)
    /\ data' = data
    /\ localStorage' = SaveCriteria(localStorage, criteria')
    /\ UNCHANGED <<classifierVars, tableVars, pageVars>>

updateCriterion(k, field, value) ==
    /\ Len(data) > 0
    /\ k \in 1..Len(criteria)
    /\ value \in FieldInputs(criteria[k], field, data)
    /\ criteria' = UpdatedCriteria(criteria, criteria[k].id, field, value, data)
    /\ data' = data
    /\ localStorage' = SaveCriteria(localStorage, criteria')
    /\ UNCHANGED <<classifierVars, tableVars, pageVars>>

removeCriterion(k) ==
    /\ Len(data) > 0
    /\ k \in 1..Len(criteria)
    /\ criteria' = RemainingCriteria(criteria, criteria[k].id)
    /\ data' = data
    /\ localStorage' = SaveCriteria(localStorage, criteria')
    /\ UNCHANGED <<classifierVars, tableVars, pageVars>>

\* The checkbox of a pill of the pill-style panel.
updateCriterionDirectly(k) ==
    /\ Len(data) > 0
    /\ k \in 1..Len(criteria)
    /\ criteria' = DirectlyUpdatedCriteria(criteria, criteria[k].id, "active",
                                           ~criteria[k].active)
    /\ data' = data
    /\ localStorage' = SaveCriteria(localStorage, criteria')
    /\ UNCHANGED <<classifierVars, tableVars, pageVars>>

----------------------------------------------------------------------------
(* App.tsx: the handlers *)

\* FileUpload is rendered only while data is empty.
handleDataLoaded(newData) ==
    /\ Len(data) = 0
    /\ data' = newData
    /\ criteria' = criteria
    /\ localStorage' = SaveData(localStorage, data')
    /\ UNCHANGED <<classifierVars, tableVars, pageVars>>

\* The "New Upload" button is rendered only while data is not empty.
handleReset ==
    /\ Len(data) > 0
    /\ data' = <<>>
    /\ criteria' = <<>>
    /\ localStorage' = SaveCriteria(SaveData(StorageEmpty, data'), criteria')
    /\ UNCHANGED <<classifierVars, tableVars, pageVars>>

\* import defaultData from './data/default-data.json': the rows the build
\* ships with.
defaultData == DataScenario

\* useState(() => ...) of data: the saved rows, the default rows without them.
LoadedData(store) ==
    IF store.compsheet_data.saved THEN JSONParse(store.compsheet_data) ELSE defaultData

\* useState(() => ...) of criteria: the saved list, the empty list without it.
LoadedCriteria(store) ==
    IF store.compsheet_criteria.saved THEN JSONParse(store.compsheet_criteria) ELSE <<>>

\* The page is loaded again: the state is built from the storage and the
\* effects of the first render write it back.
reload ==
    /\ data' = LoadedData(localStorage)
    /\ criteria' = LoadedCriteria(localStorage)
    /\ localStorage' = SaveCriteria(SaveData(localStorage, data'), criteria')
    /\ UNCHANGED <<classifierVars, tableVars, pageVars>>

\* A change made through the control of `field` in the row of criterion k.
updateCriterionFrom(k, field) ==
    \E value \in FieldInputs(criteria[k], field, data) :
        updateCriterion(k, field, value)

Next ==
    \/ \E id \in Ids : addCriterion(id)
    \/ \E k \in 1..Len(criteria), field \in Fields : updateCriterionFrom(k, field)
    \/ \E k \in 1..Len(criteria) : removeCriterion(k)
    \/ \E k \in 1..Len(criteria) : updateCriterionDirectly(k)
    \/ \E newData \in DataSets : handleDataLoaded(newData)
    \/ handleReset
    \/ reload

Spec == Init /\ [][Next]_vars

----------------------------------------------------------------------------
(* The pill-style CriteriaPanel under the FilterBar: editing a criterion *)

\* The rows the panel is given.
EditorDataSets == {DataTwoColumns, DataScenario}

EditorInit ==
    /\ data \in EditorDataSets
    /\ criteria = <<>>
    /\ localStorage = SaveCriteria(SaveData(StorageEmpty, data), criteria)
    /\ editingState = NoEditing
    /\ AnalysisFresh
    /\ charts = DefaultCharts
    /\ ClassifierIdle
    /\ TableIdle

\* The pill of criterion c is shown in its edit view.
isEditing(c) == editingState # NoEditing /\ editingState.id = c.id

\* FilterBar: addCriterion, and the effect of the panel that opens the new
\* criterion, the last of the longer list, for editing.
addCriterionAndEdit(id) ==
    /\ Len(criteria) < MaxCriteria
    /\ criteria' = Append(criteria, newCriterion(id, columns(data)))
    /\ localStorage' = SaveCriteria(localStorage, criteria')
    /\ editingState' = [id |-> id, tempCriterion |-> criteria'[Len(criteria')]]
    /\ UNCHANGED <<data, classifierVars, tableVars, chartVars, compVars, charts>>

\* A click on a pill; the pill under edit has no such click.
startEditing(k) ==
    /\ k \in 1..Len(criteria)
    /\ ~isEditing(criteria[k])
    /\ editingState' = [id |-> criteria[k].id, tempCriterion |-> criteria[k]]
    /\ UNCHANGED <<data, criteria, localStorage, classifierVars, tableVars, chartVars,
                 compVars, charts>>

\* criteria.map(c => c.id === editingState.id ? editingState.tempCriterion : c)
SavedCriteria(crit, editing) ==
    [i \in 1..Len(crit) |->
        IF crit[i].id = editing.id THEN editing.tempCriterion ELSE crit[i]]

\* The "Done" button of the edit view.
saveEditing ==
    /\ editingState # NoEditing
    /\ criteria' = SavedCriteria(criteria, editingState)
    /\ localStorage' = SaveCriteria(localStorage, criteria')
    /\ editingState' = NoEditing
    /\ UNCHANGED <<data, classifierVars, tableVars, chartVars, compVars, charts>>

\* { ...editingState.tempCriterion, [field]: value }, min and max cleared
\* for a column that is not numeric.
UpdatedTemp(temp, field, value, rows) ==
    LET updatedTemp == SetField(temp, field, value)
    IN IF field = "column" /\ ~isNumericColumn(value, rows)
       THEN [updatedTemp EXCEPT !.min = None, !.max = None]
       ELSE updatedTemp

\* What the user types into Min and Max, and into Text, in the edit view.
EditorBoundInputs == {<<"3", "0">>}

EditorTextInputs == {<<"b", "c">>}

\* The values the controls of the edit view can deliver: the select another
\* offered column, an input a text other than the one it shows; Min and Max
\* are there for a numeric column, Text for any other.
EditorInputs(c, field, rows) ==
    IF field = "column" THEN Range(columns(rows)) \ {c.column}
    ELSE IF field \in {"min", "max"}
    THEN IF isNumericColumn(c.column, rows)
         THEN EditorBoundInputs \ {Shown(IF field = "min" THEN c.min ELSE c.max)}
         ELSE {}
    ELSE IF field = "text"
    THEN IF isNumericColumn(c.column, rows) THEN {} ELSE EditorTextInputs \ {Shown(c.text)}
    ELSE {}

\* An edit that is written to the criteria list as well.
updateTempCriterionThrough(field, value) ==
    /\ editingState # NoEditing
    /\ value \in EditorInputs(editingState.tempCriterion, field, data)
    /\ editingState' =
         [editingState EXCEPT
            !.tempCriterion = UpdatedTemp(editingState.tempCriterion, field, value, data)]
    /\ criteria' = UpdatedCriteria(criteria, editingState.id, field, value, data)
    /\ localStorage' = SaveCriteria(localStorage, criteria')
    /\ UNCHANGED <<data, classifierVars, tableVars, chartVars, compVars, charts>>

\* A control of the edit view: the select, Min, Max or Text.
updateTempCriterion(field, value) ==
    /\ editingState # NoEditing
    /\ value \in EditorInputs(editingState.tempCriterion, field, data)
    /\ editingState' =
         [editingState EXCEPT
            !.tempCriterion = UpdatedTemp(editingState.tempCriterion, field, value, data)]
    /\ UNCHANGED <<data, criteria, localStorage, classifierVars, tableVars, chartVars,
                 compVars, charts>>

\* The checkbox of a pill that is not under edit.
toggleActive(k) ==
    /\ k \in 1..Len(criteria)
    /\ ~isEditing(criteria[k])
    /\ updateCriterionDirectly(k)

\* removeCriterion of the pill-style panel, for any criterion of the list: the
\* handler tests for the criterion under edit itself.
removeCriterionAndClose(k) ==
    /\ k \in 1..Len(criteria)
    /\ criteria' = RemainingCriteria(criteria, criteria[k].id)
    /\ localStorage' = SaveCriteria(localStorage, criteria')
    /\ editingState' = IF isEditing(criteria[k]) THEN NoEditing ELSE editingState
    /\ UNCHANGED <<data, classifierVars, tableVars, chartVars, compVars, charts>>

EditorNext ==
    \/ \E id \in Ids : addCriterionAndEdit(id)
    \/ \E k \in 1..Len(criteria) : startEditing(k)
    \/ saveEditing
    \/ \E field \in Fields :
          \E value \in EditorInputs(editingState.tempCriterion, field, data) :
              updateTempCriterion(field, value)
    \/ \E k \in 1..Len(criteria) : toggleActive(k)
    \/ \E k \in 1..Len(criteria) : removeCriterionAndClose(k)

SpecEditor == EditorInit /\ [][EditorNext]_vars

----------------------------------------------------------------------------
(* pages/AnalysisPage.tsx: the chart of the selected ticker *)

\* The state the page keeps under compsheet_analysis is read when the page is
\* mounted only; no action below mounts it again, and the item is left out.

UpperChar(ch) ==
    IF \E up \in DOMAIN LowerCs : LowerCs[up] = ch
    THEN CHOOSE up \in DOMAIN LowerCs : LowerCs[up] = ch
    ELSE ch

\* String.prototype.toUpperCase
ToUpperCase(s) == [i \in 1..Len(s) |-> UpperChar(s[i])]

\* row['Ticker']?.toString().toUpperCase(); undefined for null and undefined,
\* here the empty string, which is falsy as well.
TickerOf(row) ==
    LET cell == Get(row, Ticker)
    IN IF cell = Null \/ cell = Undefined THEN <<>> ELSE ToUpperCase(ToStr(cell))

\* data.map(row => row['Ticker']?.toString().toUpperCase()).filter(Boolean)
availableTickers(rows) ==
    LET IsTruthy(t) == t # <<>>
    IN SelectSeq([i \in 1..Len(rows) |-> TickerOf(rows[i])], IsTruthy)

\* The time ranges offered (of TIME_FILTERS).
TimeFilters == {"1y", "1mo"}

\* The largest number of calls of loadChartData awaiting their fetch.
MaxPending == 2

\* The effect on [selectedTicker, timeFilter], run when one of them has
\* changed: loadChartData up to its await.
LoadStarted(sym, range) ==
    IF sym # <<>> /\ sym \in Range(availableTickers(data))
    THEN /\ Len(pending) < MaxPending
         /\ chartLoading' = TRUE
         /\ pending' = Append(pending, [sym |-> sym, range |-> range])
         /\ chartData' = chartData
    ELSE UNCHANGED <<chartLoading, pending, chartData>>

\* selectTicker(ticker) on a suggestion, or handleSearchChange with the text
\* of an available ticker.
selectTicker(ticker) ==
    /\ ticker \in Range(availableTickers(data))
    /\ ticker # selectedTicker
    /\ selectedTicker' = ticker
    /\ timeFilter' = timeFilter
    /\ LoadStarted(ticker, timeFilter)
    /\ UNCHANGED <<data, criteria, localStorage, classifierVars, tableVars, editingState, charts,
                   compVars>>

\* A time range button; the buttons are there while a ticker is selected.
setTimeFilter(filter) ==
    /\ selectedTicker # <<>>
    /\ filter # timeFilter
    /\ timeFilter' = filter
    /\ selectedTicker' = selectedTicker
    /\ LoadStarted(selectedTicker, filter)
    /\ UNCHANGED <<data, criteria, localStorage, classifierVars, tableVars, editingState, charts,
                   compVars>>

Without(s, i) == SubSeq(s, 1, i - 1) \o SubSeq(s, i + 1, Len(s))

\* loadChartData after its await: fetchChartData has resolved, with the chart
\* or with mock data, setChartData(result), and finally setChartLoading(false).
fetchDone(i) ==
    /\ i \in 1..Len(pending)
    /\ chartData' = pending[i]
    /\ chartLoading' = FALSE
    /\ pending' = Without(pending, i)
    /\ UNCHANGED <<data, criteria, localStorage, classifierVars, tableVars, editingState, charts,
                   selectedTicker, timeFilter, compVars>>

----------------------------------------------------------------------------
(* pages/AnalysisPage.tsx: the comparables *)

RECURSIVE Split(_, _)
\* s.split(sep) for a separator of one character
Split(s, sep) ==
    IF \E i \in 1..Len(s) : s[i] = sep
    THEN LET first == CHOOSE i \in 1..Len(s) :
                          s[i] = sep /\ \A m \in 1..(i - 1) : s[m] # sep
         IN <<SubSeq(s, 1, first - 1)>> \o Split(SubSeq(s, first + 1, Len(s)), sep)
    ELSE <<s>>

\* compInput.split(',').map(t => t.trim().toUpperCase())
\*          .filter(t => t && availableTickers.includes(t) && !compTickers.includes(t))
newTickers(compInput, rows, comps) ==
    LET parts == Split(compInput, ",")
        mapped == [i \in 1..Len(parts) |-> ToUpperCase(Trim(parts[i]))]
        IsNew(t) ==
            /\ t # <<>>
            /\ t \in Range(availableTickers(rows))
            /\ t \notin Range(comps)
    IN SelectSeq(mapped, IsNew)

\* The form of the comparables is submitted with compInput in its field.
handleAddComp(compInput) ==
    /\ Trim(compInput) # <<>>
    /\ compTickers' = compTickers \o newTickers(compInput, data, compTickers)
    /\ UNCHANGED <<data, criteria, localStorage, classifierVars, tableVars, editingState, charts,
                   chartVars, includeFiltered>>

\* The button of a ticker shown in the list of comparables.
removeComp(ticker) ==
    /\ ticker \in Range(compTickers)
    /\ compTickers' = LET Other(t) == t # ticker IN SelectSeq(compTickers, Other)
    /\ UNCHANGED <<data, criteria, localStorage, classifierVars, tableVars, editingState, charts,
                   chartVars, includeFiltered>>

\* The checkbox "include filtered".
setIncludeFiltered(checked) ==
    /\ checked # includeFiltered
    /\ includeFiltered' = checked
    /\ UNCHANGED <<data, criteria, localStorage, classifierVars, tableVars, editingState, charts,
                   chartVars, compTickers>>

\* allTickers: the comparables, and the tickers of the filtered rows when
\* includeFiltered is set.
allTickers ==
    Range(compTickers)
        \cup (IF includeFiltered
              THEN {TickerOf(filteredData[i]) : i \in 1..Len(filteredData)} \ {<<>>}
              ELSE {})

\* data.filter(row => ...): the rows of the comparables, the selected ticker's
\* row left out.
comparableRows ==
    LET IsComparable(row) ==
            /\ TickerOf(row) # selectedTicker
            /\ TickerOf(row) # <<>>
            /\ TickerOf(row) \in allTickers
    IN SelectSeq(data, IsComparable)

\* Rows with an upper-case, a lower-case, a null and a repeated ticker.
DataTickers ==
    << <<<<Ticker, StrV(S_A)>>, <<Margin, NumV(50)>>>>,
       <<<<Ticker, StrV(<<"b">>)>>, <<Margin, NumV(20)>>>>,
       <<<<Ticker, Null>>, <<Margin, NumV(40)>>>>,
       <<<<Ticker, StrV(S_A)>>, <<Margin, NumV(10)>>>> >>

AnalysisDataSets == {DataScenario, DataTickers}

\* Margin at least 30 (percent).
MarginAtLeast30 ==
    [id |-> "k1", column |-> Margin, min |-> Some(<<"3", "0">>), max |-> None,
     text |-> None, active |-> TRUE]

\* The criteria lists App hands to the page.
AnalysisCriteria == {<<>>, <<MarginAtLeast30>>}

\* What the user types into the field of the comparables.
CompInputs ==
    {<<"A">>, <<"a", ",", "B">>, <<"A", ",", "A">>, <<" ", "b", " ">>, <<"Z">>,
     <<" ">>, <<"B", ",", ",", "Z">>}

AnalysisInit ==
    /\ data \in AnalysisDataSets
    /\ criteria \in AnalysisCriteria
    /\ localStorage = SaveCriteria(SaveData(StorageEmpty, data), criteria)
    /\ AnalysisFresh
    /\ editingState = NoEditing
    /\ charts = DefaultCharts
    /\ ClassifierIdle
    /\ TableIdle

AnalysisNext ==
    \/ \E ticker \in Range(availableTickers(data)) : selectTicker(ticker)
    \/ \E filter \in TimeFilters : setTimeFilter(filter)
    \/ \E i \in 1..MaxPending : fetchDone(i)
    \/ \E compInput \in CompInputs : handleAddComp(compInput)
    \/ \E ticker \in Range(compTickers) : removeComp(ticker)
    \/ \E checked \in BOOLEAN : setIncludeFiltered(checked)

\* Every fetch resolves: fetchChartData returns the chart, or mock data when
\* the request fails.
SpecAnalysis ==
    /\ AnalysisInit
    /\ [][AnalysisNext]_vars
    /\ WF_vars(\E i \in 1..MaxPending : fetchDone(i))

----------------------------------------------------------------------------
(* pages/ChartsPage.tsx: the list of charts *)

\* The charts the page keeps under compsheet_charts are read when the page is
\* mounted only; the page below starts from the default chart and is not
\* mounted again, and the item is left out.

\* The largest id a chart is given.
MaxChartId == 5

\* parseInt(c.id) of an id, a string of digits.
ParseInt(s) == DigitsToNat(s)

\* Math.max(...ns, 0)
MaxOf(ns) == IF ns = <<>> THEN 0 ELSE CHOOSE m \in Range(ns) \cup {0} :
                                          \A n \in Range(ns) \cup {0} : n <= m

\* The number of charts and one, as the id.
newIdByCount(list) == NatToDigits(Len(list) + 1)

\* (Math.max(...charts.map(c => parseInt(c.id)), 0) + 1).toString()
newId(list) == NatToDigits(MaxOf([i \in 1..Len(list) |-> ParseInt(list[i].id)]) + 1)

\* The "Add Chart" button.
addChart ==
    /\ ParseInt(newId(charts)) <= MaxChartId
    /\ charts' = Append(charts, [id |-> newId(charts), title |-> ChartTitle(newId(charts))])
    /\ UNCHANGED <<data, criteria, localStorage, classifierVars, tableVars, editingState,
                   chartVars, compVars>>

\* The remove button of a chart.
removeChart(id) ==
    /\ id \in {charts[i].id : i \in 1..Len(charts)}
    /\ charts' = IF Len(charts) > 1
                 THEN LET Other(c) == c.id # id IN SelectSeq(charts, Other)
                 ELSE charts
    /\ UNCHANGED <<data, criteria, localStorage, classifierVars, tableVars, editingState,
                   chartVars, compVars>>

\* What the user types into the title of a chart.
TitleInputs == {<<"M", "y">>}

\* The title input of a chart.
updateChartTitle(id, title) ==
    /\ id \in {charts[i].id : i \in 1..Len(charts)}
    /\ charts' = [i \in 1..Len(charts) |->
                     IF charts[i].id = id THEN [charts[i] EXCEPT !.title = title]
                     ELSE charts[i]]
    /\ charts' # charts
    /\ UNCHANGED <<data, criteria, localStorage, classifierVars, tableVars, editingState,
                   chartVars, compVars>>

ChartIds == {NatToDigits(n) : n \in 1..MaxChartId}

ChartsInit ==
    /\ charts = DefaultCharts
    /\ data \in {DataScenario}
    /\ criteria = <<>>
    /\ localStorage = SaveCriteria(SaveData(StorageEmpty, data), criteria)
    /\ editingState = NoEditing
    /\ AnalysisFresh
    /\ ClassifierIdle
    /\ TableIdle

ChartsNext ==
    \/ addChart
    \/ \E id \in ChartIds : removeChart(id)
    \/ \E id \in ChartIds, title \in TitleInputs : updateChartTitle(id, title)

SpecCharts == ChartsInit /\ [][ChartsNext]_vars

----------------------------------------------------------------------------
(* lib/formatUtils.ts: createFormatMap *)

\* The map from each key of the first row to the tag of its column.
createFormatMap(rows) ==
    IF Len(rows) = 0 THEN <<>>
    ELSE [col \in Range(ObjectKeys(rows[1])) |->
             detectColumnFormat(col, SampleValues(rows, col))]

\* formatMap[col] || 'text'
FormatOf(formatMap, col) ==
    IF col \in DOMAIN formatMap THEN formatMap[col] ELSE "text"

----------------------------------------------------------------------------
(* components/DataTable.tsx: columns and summary rows *)

fixedColumns == <<Ticker, LongName>>

RECURSIVE Dedupe(_)
\* [...new Set(s)]: the first occurrence of each element, in order.
Dedupe(s) ==
    IF s = <<>> THEN <<>>
    ELSE LET init == Dedupe(SubSeq(s, 1, Len(s) - 1))
             last == s[Len(s)]
         IN IF last \in Range(init) THEN init ELSE Append(init, last)

\* col in row
HasKey(row, col) == \E k \in 1..Len(row) : row[k][1] = col

allColumns(rows, visible) ==
    LET Shows(col) ==
            IF Len(rows) > 0
            THEN HasKey(rows[1], col) \/ col \in Range(fixedColumns)
            ELSE TRUE
    IN SelectSeq(Dedupe(fixedColumns \o visible), Shows)

\* A number that need not be a whole count of hundredths: num / den hundredths.
Quotient(num, den) == [t |-> "number", num |-> num, den |-> den]

RECURSIVE Sum(_)
\* ns.reduce((a, b) => a + b, 0)
Sum(ns) == IF ns = <<>> THEN 0 ELSE Head(ns) + Sum(Tail(ns))

\* data.map(row => Number(row[col])).filter(v => !isNaN(v))
ColumnNumbers(rows, col) ==
    SelectSeq([i \in 1..Len(rows) |-> ToNumber(Get(rows[i], col))], NotNaN)

\* sum / values.length
Average(ns) == Quotient(Sum(ns), Len(ns))

\* sorted.length % 2 !== 0 ? sorted[mid] : (sorted[mid - 1] + sorted[mid]) / 2
Median(ns) ==
    LET sorted == SortAsc(ns)
        mid == Len(sorted) \div 2
    IN IF Len(sorted) % 2 # 0 THEN Quotient(sorted[mid + 1], 1)
       ELSE Quotient(sorted[mid] + sorted[mid + 1], 2)

MarkerAverage == StrV(<<"A", "V", "E", "R", "A", "G", "E">>)

MarkerMedian == StrV(<<"M", "E", "D", "I", "A", "N">>)

\* The columns that get an average and a median.
SummaryColumns(rows, visible) ==
    {col \in Range(allColumns(rows, visible)) \ Range(fixedColumns) :
        Len(ColumnNumbers(rows, col)) > 0}

averages(rows, visible) ==
    [col \in Range(fixedColumns) \cup SummaryColumns(rows, visible) |->
        IF col = Ticker THEN MarkerAverage
        ELSE IF col = LongName THEN EmptyStr
        ELSE Average(ColumnNumbers(rows, col))]

medians(rows, visible) ==
    [col \in Range(fixedColumns) \cup SummaryColumns(rows, visible) |->
        IF col = Ticker THEN MarkerMedian
        ELSE IF col = LongName THEN EmptyStr
        ELSE Median(ColumnNumbers(rows, col))]

----------------------------------------------------------------------------
(* components/DataTable.tsx: sorting *)

\* The order of localeCompare on the characters of the model: space,
\* punctuation, symbols, digits, letters.
Collation ==
    <<" ", "-", ".", "/", "(", ")", "%", "$",
      "0", "1", "2", "3", "4", "5", "6", "7", "8", "9",
      "a", "b", "c", "d", "e", "f", "g", "h", "i", "j", "k", "l", "m",
      "n", "o", "p", "q", "r", "s", "t", "u", "v", "w", "x", "y", "z">>

CharRank(ch) ==
    IF \E i \in 1..Len(Collation) : Collation[i] = ch
    THEN CHOOSE i \in 1..Len(Collation) : Collation[i] = ch
    ELSE 0

RECURSIVE LocaleCompare(_, _)
\* a.localeCompare(b): negative, zero or positive
LocaleCompare(a, b) ==
    IF a = <<>> THEN (IF b = <<>> THEN 0 ELSE -1)
    ELSE IF b = <<>> THEN 1
    ELSE IF CharRank(Head(a)) # CharRank(Head(b))
    THEN CharRank(Head(a)) - CharRank(Head(b))
    ELSE LocaleCompare(Tail(a), Tail(b))

\* A comparator that puts missing values first when the direction is
\* descending.
CompareMissingByDirection(a, b, config) ==
    LET aVal == Get(a, config.column)
        bVal == Get(b, config.column)
        last == IF config.direction = "asc" THEN 1 ELSE -1
    IN IF aVal = Null \/ aVal = Undefined \/ aVal = EmptyStr THEN last
       ELSE IF bVal = Null \/ bVal = Undefined \/ bVal = EmptyStr THEN -last
       ELSE LET aNum == ToNumber(aVal)
                bNum == ToNumber(bVal)
            IN IF ~IsNaN(aNum) /\ ~IsNaN(bNum)
               THEN IF config.direction = "asc" THEN aNum - bNum ELSE bNum - aNum
               ELSE LET aStr == ToLowerCase(ToStr(aVal))
                        bStr == ToLowerCase(ToStr(bVal))
                    IN IF config.direction = "asc"
                       THEN LocaleCompare(aStr, bStr)
                       ELSE LocaleCompare(bStr, aStr)

\* The comparator handed to sort.
Compare(a, b, config) ==
    LET aVal == Get(a, config.column)
        bVal == Get(b, config.column)
    IN IF aVal = Null \/ aVal = Undefined \/ aVal = EmptyStr THEN 1
       ELSE IF bVal = Null \/ bVal = Undefined \/ bVal = EmptyStr THEN -1
       ELSE LET aNum == ToNumber(aVal)
                bNum == ToNumber(bVal)
            IN IF ~IsNaN(aNum) /\ ~IsNaN(bNum)
               THEN IF config.direction = "asc" THEN aNum - bNum ELSE bNum - aNum
               ELSE LET aStr == ToLowerCase(ToStr(aVal))
                        bStr == ToLowerCase(ToStr(bVal))
                    IN IF config.direction = "asc"
                       THEN LocaleCompare(aStr, bStr)
                       ELSE LocaleCompare(bStr, aStr)

RECURSIVE InsertRow(_, _, _)
\* x placed behind the last row it does not precede.
InsertRow(sorted, x, config) ==
    IF sorted = <<>> THEN <<x>>
    ELSE IF Compare(x, sorted[Len(sorted)], config) < 0
    THEN Append(InsertRow(SubSeq(sorted, 1, Len(sorted) - 1), x, config),
                sorted[Len(sorted)])
    ELSE Append(sorted, x)

RECURSIVE SortRows(_, _)
\* [...data].sort(comparator): a stable sort, by insertion.
SortRows(rows, config) ==
    IF rows = <<>> THEN <<>>
    ELSE InsertRow(SortRows(SubSeq(rows, 1, Len(rows) - 1), config),
                   rows[Len(rows)], config)

RECURSIVE InsertRowFlipped(_, _, _)
\* The same insertion by a sort that hands the pair to the comparator the
\* other way round: the comparator answers 1 for two missing values in either
\* order, so the two sorts can differ.
InsertRowFlipped(sorted, x, config) ==
    IF sorted = <<>> THEN <<x>>
    ELSE IF Compare(sorted[Len(sorted)], x, config) > 0
    THEN Append(InsertRowFlipped(SubSeq(sorted, 1, Len(sorted) - 1), x, config),
                sorted[Len(sorted)])
    ELSE Append(sorted, x)

RECURSIVE SortRowsFlipped(_, _)
SortRowsFlipped(rows, config) ==
    IF rows = <<>> THEN <<>>
    ELSE InsertRowFlipped(SortRowsFlipped(SubSeq(rows, 1, Len(rows) - 1), config),
                          rows[Len(rows)], config)

\* useMemo(() => ..., [data, sortConfig])
SortedData(rows, config) == IF config = NoSort THEN rows ELSE SortRows(rows, config)

sortedData == SortedData(tableData, sortConfig)

\* A two-state toggle: descending goes back to ascending, never to unsorted.
NextSortConfigTwoState(current, column) ==
    IF current = NoSort \/ current.column # column
    THEN [column |-> column, direction |-> "asc"]
    ELSE IF current.direction = "asc"
    THEN [column |-> column, direction |-> "desc"]
    ELSE [column |-> column, direction |-> "asc"]

\* setSortConfig(current => ...)
NextSortConfig(current, column) ==
    IF current = NoSort \/ current.column # column
    THEN [column |-> column, direction |-> "asc"]
    ELSE IF current.direction = "asc"
    THEN [column |-> column, direction |-> "desc"]
    ELSE NoSort

----------------------------------------------------------------------------
(* components/DataTable.tsx: the table on its own *)

\* Price 30, 10, 20: an odd count.
DataOdd ==
    << <<<<Ticker, StrV(S_A)>>, <<Price, NumV(3000)>>>>,
       <<<<Ticker, StrV(S_B)>>, <<Price, NumV(1000)>>>>,
       <<<<Ticker, StrV(<<"C">>)>>, <<Price, NumV(2000)>>>> >>

\* Price 40, 10, 30, 20: an even count.
DataEven ==
    << <<<<Ticker, StrV(S_A)>>, <<Price, NumV(4000)>>>>,
       <<<<Ticker, StrV(S_B)>>, <<Price, NumV(1000)>>>>,
       <<<<Ticker, StrV(<<"C">>)>>, <<Price, NumV(3000)>>>>,
       <<<<Ticker, StrV(<<"D">>)>>, <<Price, NumV(2000)>>>> >>

\* A column without any number: text, null, empty and absent cells.
DataNotes ==
    << <<<<Ticker, StrV(S_A)>>, <<Sector, StrV(<<"A", "b", "c">>)>>>>,
       <<<<Ticker, StrV(S_B)>>, <<Sector, Null>>>>,
       <<<<Ticker, StrV(<<"C">>)>>, <<Sector, EmptyStr>>>>,
       <<<<Ticker, StrV(<<"D">>)>>>> >>

\* Price 5, null, 1.
DataNullInside ==
    << <<<<Ticker, StrV(S_A)>>, <<Price, NumV(500)>>>>,
       <<<<Ticker, StrV(S_B)>>, <<Price, Null>>>>,
       <<<<Ticker, StrV(<<"C">>)>>, <<Price, NumV(100)>>>> >>

\* Missing cells of the three kinds ahead of and between the numbers.
DataGaps ==
    << <<<<Ticker, StrV(S_A)>>, <<Price, Null>>>>,
       <<<<Ticker, StrV(S_B)>>, <<Price, NumV(300)>>>>,
       <<<<Ticker, StrV(<<"C">>)>>, <<Price, EmptyStr>>>>,
       <<<<Ticker, StrV(<<"D">>)>>>>,
       <<<<Ticker, StrV(<<"E">>)>>, <<Price, NumV(100)>>>> >>

\* The rows a page hands to the table, the empty list among them.
TableDataSets ==
    {<<>>, DataOdd, DataEven, DataScenario, DataPrice, DataSector, DataNotes,
     DataTwoColumns, DataNullInside, DataGaps}

\* The column lists a page hands to the table.
VisibleInputs == {<<>>, <<Price>>, <<Margin, Sector>>, <<Ticker, Price, Sector>>}

TableInit ==
    /\ tableData \in TableDataSets
    /\ visibleColumns \in VisibleInputs
    /\ sortConfig = NoSort
    /\ data = <<>>
    /\ criteria = <<>>
    /\ localStorage = StorageEmpty
    /\ ClassifierIdle
    /\ PagesIdle

\* The page renders the table with other props; its state is kept.
DataTable(newData, newVisible) ==
    /\ <<newData, newVisible>> # <<tableData, visibleColumns>>
    /\ tableData' = newData
    /\ visibleColumns' = newVisible
    /\ UNCHANGED <<data, criteria, localStorage, classifierVars, sortConfig, pageVars>>

\* A click on the header of a column; the headers are there while the table
\* has rows.
handleSort(column) ==
    /\ Len(tableData) > 0
    /\ column \in Range(allColumns(tableData, visibleColumns))
    /\ sortConfig' = NextSortConfig(sortConfig, column)
    /\ UNCHANGED <<data, criteria, localStorage, classifierVars, tableData, visibleColumns,
                 pageVars>>

TableNext ==
    \/ \E newData \in TableDataSets, newVisible \in VisibleInputs :
          DataTable(newData, newVisible)
    \/ \E column \in {Ticker, LongName, Price, Margin, Sector} : handleSort(column)

SpecTable == TableInit /\ [][TableNext]_vars

----------------------------------------------------------------------------
(* lib/formatUtils.ts: detectColumnFormat called on its own *)

EvRevenue == <<"E", "V", "/", "R", "e", "v", "e", "n", "u", "e">>

MarginRatio == <<"M", "a", "r", "g", "i", "n", " ", "R", "a", "t", "i", "o">>

RevenueGrowth == <<"R", "e", "v", "e", "n", "u", "e", " ", "G", "r", "o", "w", "t", "h">>

Employees == <<"E", "m", "p", "l", "o", "y", "e", "e", "s">>

\* Column names: a ratio name that holds a currency substring, one that holds a
\* percentage substring, a percentage name, one that holds a currency
\* substring as well, a currency name and a name of no family.
ColumnNames == {EvRevenue, MarginRatio, Margin, RevenueGrowth, Price, Employees}

NotAvailable == StrV(<<"N", "/", "A">>)

\* Sample cells: 0.5, -1.5, -2, 3, 9000 and 10000, the strings "N/A", "15%", "15" and "-",
\* and null.  createFormatMap passes neither undefined nor ''.
SampleCells ==
    {NumV(50), NumV(-150), NumV(-200), NumV(300), NumV(900000), NumV(1000000),
     NotAvailable, StrV(<<"1", "5", "%">>), StrV(<<"1", "5">>), StrV(<<"-">>), Null}

\* The longest sample list.
MaxSamples == 3

SampleLists == UNION {[1..n -> SampleCells] : n \in 0..MaxSamples}

ClassifyInit ==
    /\ colName \in ColumnNames
    /\ samples \in SampleLists
    /\ formatTag = Unclassified
    /\ data = <<>>
    /\ criteria = <<>>
    /\ localStorage = StorageEmpty
    /\ TableIdle
    /\ PagesIdle

\* One call detectColumnFormat(colName, samples).
classify ==
    /\ formatTag = Unclassified
    /\ formatTag' = detectColumnFormat(colName, samples)
    /\ UNCHANGED <<data, criteria, localStorage, colName, samples, tableVars, pageVars>>

ClassifyNext == classify

SpecClassify == ClassifyInit /\ [][ClassifyNext]_vars

----------------------------------------------------------------------------
(* pages/OverviewPage.tsx: the columns handed to the table *)

\* The default columns of the raw data and overview tables.
DEFAULT_COLUMNS ==
    << <<"M", "a", "r", "k", "e", "t", " ", "C", "a", "p">>,
       <<"F", "T", "M", " ", "R", "e", "v", "e", "n", "u", "e">>,
       <<"M", "R", "Q", " ", "R", "e", "v", "e", "n", "u", "e", " ", "G", "r", "o", "w", "t", "h">>,
       <<"F", "T", "M", " ", "R", "e", "v", "e", "n", "u", "e", " ", "G", "r", "o", "w", "t", "h">>,
       <<"F", "T", "M", " ", "F", "C", "F", " ", "M", "a", "r", "g", "i", "n">>,
       <<"E", "V", "/", "R", "e", "v", " ", "F", "T", "M">>,
       <<"E", "V", "/", "u", "F", "C", "F", " ", "F", "T", "M">> >>

\* Every criterion, active or not.
activeCriteriaAll(list) == list

\* criteria.filter(c => c.active)
activeCriteria(list) ==
    LET IsActive(c) == c.active IN SelectSeq(list, IsActive)

\* activeCriteria.map(c => c.column)
criteriaColumns(list) ==
    LET active == activeCriteria(list)
    IN [j \in 1..Len(active) |-> active[j].column]

\* Array.from(new Set([...DEFAULT_COLUMNS, ...criteriaColumns]))
overviewVisibleColumns == Dedupe(DEFAULT_COLUMNS \o criteriaColumns(criteria))

----------------------------------------------------------------------------
(* Properties of the filter *)

\* The columns whose bounds the filter scales, for the criteria in force.
DecimalColumns == columnIsDecimal(data, effectiveCriteria(criteria))

\* A missing cell: undefined (also a key the row does not have), null or ''.
IsMissing(v) == v \in {Undefined, Null, EmptyStr}

EffectiveIndices == {j \in 1..Len(criteria) : IsEffective(criteria[j])}

\* C1: a row is in the filtered result if and only if it satisfies every
\* effective criterion (non-empty min, non-empty max, or text that is not
\* empty after trim); failing a single effective criterion excludes the row.
C1_AllEffectiveCriteria ==
    LET kept == Range(filteredData)
        dec == DecimalColumns
    IN \A i \in 1..Len(data) :
          data[i] \in kept <=>
             \A j \in 1..Len(criteria) :
                (\/ Shown(criteria[j].min) # <<>>
                 \/ Shown(criteria[j].max) # <<>>
                 \/ Trim(Shown(criteria[j].text)) # <<>>)
                   => CriterionPasses(data[i], criteria[j], dec)

\* Two effective criteria on two columns, a row that satisfies one of them and
\* fails the other and is excluded, and another row that satisfies both and
\* survives.
C1_Witness ==
    LET kept == Range(filteredData)
        dec == DecimalColumns
    IN /\ \E i \in 1..Len(data), j1, j2 \in EffectiveIndices :
             /\ criteria[j1].column # criteria[j2].column
             /\ CriterionPasses(data[i], criteria[j1], dec)
             /\ ~CriterionPasses(data[i], criteria[j2], dec)
             /\ data[i] \notin kept
       /\ \E i \in 1..Len(data) : data[i] \in kept

\* The list with the `active` flag of criterion k negated and nothing else changed.
ActiveToggled(k) ==
    DirectlyUpdatedCriteria(criteria, criteria[k].id, "active", ~criteria[k].active)

\* C2: the filtered rows do not depend on any criterion's `active` flag:
\* toggling `active` on a criterion leaves the filtered rows unchanged.
C2_ActiveDoesNotGate ==
    LET filtered == filteredData
    IN \A k \in 1..Len(criteria) : FilteredData(data, ActiveToggled(k)) = filtered

\* An effective criterion that is not active and excludes a row.
C2_Witness ==
    /\ \E j \in EffectiveIndices : ~criteria[j].active
    /\ Len(filteredData) < Len(data)

\* C3: when every criterion is ineffective (min, max and text unset or
\* empty), or the list is empty, the filtered result is the input rows,
\* the same rows in the same order.
C3_IneffectiveIsIdentity ==
    (\A j \in 1..Len(criteria) :
        /\ Shown(criteria[j].min) = <<>>
        /\ Shown(criteria[j].max) = <<>>
        /\ Trim(Shown(criteria[j].text)) = <<>>)
    => filteredData = data

\* A criterion whose min was typed and cleared again, over rows with a null
\* cell in its column.
C3_Witness ==
    /\ Len(criteria) > 0
    /\ EffectiveIndices = {}
    /\ \E j \in 1..Len(criteria) :
          /\ criteria[j].min = Some(<<>>)
          /\ \E i \in 1..Len(data) : Get(data[i], criteria[j].column) = Null
    /\ filteredData = data

\* C4: filtering is idempotent: the filter applied with the same criteria to
\* its own output, the column format derived from that output, returns the
\* same rows.
C4_Idempotent ==
    LET filtered == filteredData
    IN FilteredData(filtered, criteria) = filtered

\* C5: a row whose value at an effective criterion's column is missing is
\* excluded, and an effective criterion on a column absent from every row
\* makes the filtered result empty.
C5_MissingFails ==
    LET filtered == filteredData
        kept == Range(filtered)
    IN /\ \A i \in 1..Len(data), j \in EffectiveIndices :
             IsMissing(Get(data[i], criteria[j].column)) => data[i] \notin kept
       /\ \A j \in EffectiveIndices :
             (\A i \in 1..Len(data) :
                 criteria[j].column \notin Range(ObjectKeys(data[i])))
             => filtered = <<>>

\* A null, an empty and an absent cell under one effective criterion, each
\* excluded, while another row survives.
C5_Witness ==
    LET kept == Range(filteredData)
    IN \E j \in EffectiveIndices :
          /\ \E i \in 1..Len(data) :
                Get(data[i], criteria[j].column) = Null /\ data[i] \notin kept
          /\ \E i \in 1..Len(data) :
                Get(data[i], criteria[j].column) = EmptyStr /\ data[i] \notin kept
          /\ \E i \in 1..Len(data) :
                /\ criteria[j].column \notin Range(ObjectKeys(data[i]))
                /\ data[i] \notin kept
          /\ \E i \in 1..Len(data) : data[i] \in kept

\* The format tag of a column over the loaded rows, as the filter derives it.
ColumnTag(col) == detectColumnFormat(col, SampleValues(data, col))

TypedBound(opt) == StringToNumber(opt.s)

\* What a bound typed as a whole number means against an unscaled cell:
\* cell >= bound / 100 is 100 * cell >= bound.
WithinTypedBounds(v, c, isPercentageDecimal) ==
    LET factor == IF isPercentageDecimal THEN PercentDivisor ELSE 1
    IN /\ HasMinFilter(c) => factor * v >= TypedBound(c.min)
       /\ HasMaxFilter(c) => factor * v <= TypedBound(c.max)

\* The scenario's criterion: column Margin, min "30", nothing else.
IsScenarioCriterion(c) ==
    /\ c.column = Margin
    /\ c.min = Some(<<"3", "0">>)
    /\ Shown(c.max) = <<>>
    /\ Shown(c.text) = <<>>

\* C6: for a column tagged percentage_decimal each numeric bound is divided by
\* 100 and the cell is compared unscaled, for any other tag the bound is used
\* as entered; for rows {A: Margin 0.5, B: Margin 0.2} and the criterion
\* {Margin, min "30"} exactly row A passes.
C6_BoundScaling ==
    LET filtered == filteredData
        kept == Range(filtered)
        eff == EffectiveIndices
        tagged == {j \in eff : ColumnTag(criteria[j].column) = "percentage_decimal"}
    IN /\ (\A j \in eff : ~HasTextFilter(criteria[j]))
          => \A i \in 1..Len(data) :
               (\A j \in eff : TypeOf(Get(data[i], criteria[j].column)) = "number")
               => (data[i] \in kept <=>
                     \A j \in eff :
                        WithinTypedBounds(Get(data[i], criteria[j].column).n,
                                          criteria[j], j \in tagged))
       /\ (data = DataScenario /\ Len(criteria) = 1 /\ IsScenarioCriterion(criteria[1]))
          => filtered = <<DataScenario[1]>>

\* The scenario: Margin is tagged percentage_decimal and only row A is left.
C6_Witness ==
    /\ data = DataScenario
    /\ Len(criteria) = 1
    /\ IsScenarioCriterion(criteria[1])
    /\ ColumnTag(Margin) = "percentage_decimal"
    /\ filteredData = <<DataScenario[1]>>

\* The bound the cell is compared with: the typed bound, over 100 for a
\* percentage_decimal column.
ScaledBound(opt, tag) ==
    IF tag = "percentage_decimal"
    THEN TypedBound(opt) \div PercentDivisor
    ELSE TypedBound(opt)

\* C7: numeric bounds are inclusive: under a single criterion with bounds and
\* no text, a row with a present cell passes exactly when its numeric value v
\* satisfies min <= v <= max for the bounds that are set, so a value equal to
\* the scaled min or to the scaled max passes.
C7_InclusiveBounds ==
    LET kept == Range(filteredData)
        eff == EffectiveIndices
    IN \A j \in eff :
          (eff = {j} /\ ~HasTextFilter(criteria[j]))
          => LET c == criteria[j]
                 tag == ColumnTag(c.column)
             IN \A i \in 1..Len(data) :
                   LET val == Get(data[i], c.column)
                       v == CoerceCell(val)
                   IN (~IsMissing(val) /\ ~IsNaN(v))
                      => (data[i] \in kept <=>
                            /\ HasMinFilter(c) => ScaledBound(c.min, tag) <= v
                            /\ HasMaxFilter(c) => v <= ScaledBound(c.max, tag))

\* A criterion on a percentage_decimal column with min and max set, and a
\* surviving row whose value equals the scaled min and the scaled max.
C7_Witness ==
    LET kept == Range(filteredData)
        eff == EffectiveIndices
    IN \E j \in eff :
          /\ eff = {j}
          /\ HasMinFilter(criteria[j]) /\ HasMaxFilter(criteria[j])
          /\ ColumnTag(criteria[j].column) = "percentage_decimal"
          /\ \E i \in 1..Len(data) :
                LET val == Get(data[i], criteria[j].column)
                IN /\ TypeOf(val) = "number"
                   /\ val.n = ScaledBound(criteria[j].min, "percentage_decimal")
                   /\ val.n = ScaledBound(criteria[j].max, "percentage_decimal")
                   /\ data[i] \in kept

\* C8: under a criterion with text set a row passes the text check exactly
\* when the lowercased string form of its cell contains the criterion text
\* trimmed and lowercased.
C8_TextTrimmed ==
    LET kept == Range(filteredData)
        eff == EffectiveIndices
    IN \A j \in eff :
          (/\ eff = {j}
           /\ HasTextFilter(criteria[j])
           /\ ~HasMinFilter(criteria[j]) /\ ~HasMaxFilter(criteria[j]))
          => \A i \in 1..Len(data) :
                LET val == Get(data[i], criteria[j].column)
                IN ~IsMissing(val)
                   => (data[i] \in kept <=>
                         Includes(ToLowerCase(ToStr(val)),
                                  Trim(ToLowerCase(criteria[j].text.s))))

RECURSIVE IsSubsequence(_, _)
\* s is obtained from t by deleting elements: each element of s is matched
\* with an element of t of its own, later than the match of its predecessor.
IsSubsequence(s, t) ==
    IF s = <<>> THEN TRUE
    ELSE IF t = <<>> THEN FALSE
    ELSE IF Head(s) = Head(t) THEN IsSubsequence(Tail(s), Tail(t))
    ELSE IsSubsequence(s, Tail(t))

\* C9: the filtered result is an order-preserving sub-sequence of the input
\* rows: no row that is not in the input, no input row twice, surviving rows
\* in their input order.
C9_OrderPreservingSubsequence == IsSubsequence(filteredData, data)

\* Two surviving rows around an excluded one.
C9_Witness ==
    LET filtered == filteredData
        kept == Range(filtered)
    IN /\ Len(filtered) >= 2
       /\ \E a, b, c \in 1..Len(data) :
             /\ a < b /\ b < c
             /\ data[a] \in kept /\ data[b] \notin kept /\ data[c] \in kept

HasDigit(s) == \E k \in 1..Len(s) : s[k] \in DigitSet

\* C10: under a criterion with a min or max bound, a row whose cell is a
\* non-empty string that cannot be read as a number, such as one without any
\* digit, fails the criterion and is excluded.
C10_UnparsableFails ==
    LET kept == Range(filteredData)
    IN \A i \in 1..Len(data), j \in EffectiveIndices :
          LET val == Get(data[i], criteria[j].column)
          IN (/\ HasMinFilter(criteria[j]) \/ HasMaxFilter(criteria[j])
              /\ TypeOf(val) = "string"
              /\ val.s # <<>>
              /\ ~HasDigit(val.s))
             => data[i] \notin kept

\* C11: for one snapshot of rows and criteria, the tag that decides bound
\* scaling of a criterion's column in the filter is the tag that renders the
\* column in the table of the filtered rows, where the column of an active
\* criterion is shown.
C11_SingleClassification ==
    LET filtered == filteredData
    IN Len(filtered) > 0
       => LET formatMap == createFormatMap(filtered)
          IN \A j \in EffectiveIndices :
                (/\ criteria[j].active
                 /\ criteria[j].column \in Range(ObjectKeys(filtered[1])))
                => FormatOf(formatMap, criteria[j].column)
                      = ColumnTag(criteria[j].column)

----------------------------------------------------------------------------
(* Properties of the classifier *)

Classified == formatTag # Unclassified

\* The name of the classified column, lowercased, contains sub.
NameContains(sub) == Includes(ToLowerCase(colName), sub)

\* C12: a column whose lowercased name contains "ev/", "/rev", "/fcf",
\* "/ebitda", "/g", "ratio" or "multiple" is tagged decimal, whatever its
\* samples and whatever percentage or currency substring the name also holds.
C12_RatioFirst ==
    (/\ Classified
     /\ \/ NameContains(<<"e", "v", "/">>)
        \/ NameContains(<<"/", "r", "e", "v">>)
        \/ NameContains(<<"/", "f", "c", "f">>)
        \/ NameContains(<<"/", "e", "b", "i", "t", "d", "a">>)
        \/ NameContains(<<"/", "g">>)
        \/ NameContains(<<"r", "a", "t", "i", "o">>)
        \/ NameContains(<<"m", "u", "l", "t", "i", "p", "l", "e">>))
    => formatTag = "decimal"

\* "EV/Revenue", which holds "revenue", over samples of 9000 and more.
C12_Witness ==
    /\ colName = EvRevenue
    /\ NameContains(<<"r", "e", "v", "e", "n", "u", "e">>)
    /\ samples = <<NumV(900000), NumV(1000000)>>
    /\ formatTag = "decimal"

\* The name holds one of the substrings of a ratio or multiple.
RatioNamed == \E sub \in RatioNames : NameContains(sub)

\* Every sample is a number, within [lo, hi] when closed, within (lo, hi) else.
SamplesWithin(lo, hi, closed) ==
    \A i \in 1..Len(samples) :
       /\ TypeOf(samples[i]) = "number"
       /\ IF closed
          THEN lo * Scale <= samples[i].n /\ samples[i].n <= hi * Scale
          ELSE lo * Scale < samples[i].n /\ samples[i].n < hi * Scale

\* C13 as stated: a column whose name contains "margin" and whose samples, at
\* least one, all lie in [-2, 2] is tagged percentage_decimal.
C13_MarginWithinTwo ==
    (Classified /\ NameContains(<<"m", "a", "r", "g", "i", "n">>)
        /\ Len(samples) > 0 /\ SamplesWithin(-2, 2, TRUE))
    => formatTag = "percentage_decimal"

\* C13 as amended: a column whose name contains "margin" and no ratio
\* substring, with at least one sample and all samples strictly between -2 and
\* 2, is tagged percentage_decimal.
C13_MarginStrictlyWithinTwo ==
    (Classified /\ NameContains(<<"m", "a", "r", "g", "i", "n">>) /\ ~RatioNamed
        /\ Len(samples) > 0 /\ SamplesWithin(-2, 2, FALSE))
    => formatTag = "percentage_decimal"

\* "Margin" over 0.5 and -1.5.
C13_Witness ==
    /\ colName = Margin
    /\ samples = <<NumV(50), NumV(-150)>>
    /\ formatTag = "percentage_decimal"

AllNumbers == \A i \in 1..Len(samples) : TypeOf(samples[i]) = "number"

\* Twice the median of the absolute values of cells, all numbers and at least
\* one: the middle element of an odd count, the mean of the two middle
\* elements of an even count.
TwiceMedianAbsOf(cells) ==
    LET sorted == SortAsc([i \in 1..Len(cells) |-> Abs(cells[i].n)])
        mid == Len(sorted) \div 2
    IN IF Len(sorted) % 2 = 1 THEN 2 * sorted[mid + 1]
       ELSE sorted[mid] + sorted[mid + 1]

TwiceMedianAbsSample == TwiceMedianAbsOf(samples)

PercentNamed == \E sub \in PercentNames : NameContains(sub)

CurrencyNamed == \E sub \in CurrencyNames : NameContains(sub)

\* No sample can be read as a number: each is a string without a digit.
NoNumericSample ==
    \A i \in 1..Len(samples) :
       TypeOf(samples[i]) = "string" /\ ~HasDigit(samples[i].s)

\* C15: for a percentage-family name without a ratio substring, samples that
\* cannot be parsed as numbers are discarded, and when no numeric sample
\* remains (an empty list, or only strings such as "N/A") the tag is
\* percentage.
C15_NoNumericSampleIsPercentage ==
    (Classified /\ PercentNamed /\ ~RatioNamed /\ NoNumericSample)
    => formatTag = "percentage"

IsNumberCell(v) == TypeOf(v) = "number"

\* C16: for a name with a currency substring and no ratio or percentage
\* substring, over samples each a number or a string that cannot be parsed,
\* the tag with at least one number is currency_millions exactly when the
\* median of the absolute values is below 10,000 and currency otherwise, and
\* with no number it is currency.
C16_CurrencyByMedian ==
    (/\ Classified /\ CurrencyNamed /\ ~RatioNamed /\ ~PercentNamed
     /\ \A i \in 1..Len(samples) :
           \/ IsNumberCell(samples[i])
           \/ TypeOf(samples[i]) = "string" /\ ~HasDigit(samples[i].s))
    => LET nums == SelectSeq(samples, IsNumberCell)
       IN IF Len(nums) = 0 THEN formatTag = "currency"
          ELSE IF TwiceMedianAbsOf(nums) < 2 * MillionsThreshold * Scale
          THEN formatTag = "currency_millions"
          ELSE formatTag = "currency"

\* C17: for a name with no ratio, percentage or currency substring the tag is
\* number exactly when strictly more than half of the samples are of numeric
\* type, strings that look numeric not counted, and text otherwise, also for
\* the empty list.
C17_DefaultByNumberType ==
    (Classified /\ ~RatioNamed /\ ~PercentNamed /\ ~CurrencyNamed)
    => IF 2 * Len(SelectSeq(samples, IsNumberCell)) > Len(samples)
       THEN formatTag = "number"
       ELSE formatTag = "text"

\* "Employees" over 3 and the string "15": half of the samples are numbers.
C17_Witness ==
    /\ colName = Employees
    /\ samples = <<NumV(300), StrV(<<"1", "5">>)>>
    /\ formatTag = "text"

----------------------------------------------------------------------------
(* Properties of the table *)

\* The columns of the table that are not identity columns.
ValueColumns == Range(allColumns(tableData, visibleColumns)) \ Range(fixedColumns)

\* A cell that holds a numeric value: not missing, and read by Number as a number.
IsNumericValue(v) == ~IsMissing(v) /\ ~IsNaN(ToNumber(v))

\* The numeric values of a column of the table, in row order.
NumericValues(col) ==
    LET cells == SelectSeq(ColumnCells(tableData, col), IsNumericValue)
    IN [i \in 1..Len(cells) |-> ToNumber(cells[i])]

\* Twice the median: the middle element of the ascending sort of an odd
\* count, the mean of the two middle elements of an even count.
TwiceMedianOf(ns) ==
    LET sorted == SortAsc(ns)
        mid == Len(sorted) \div 2
    IN IF Len(sorted) % 2 = 1 THEN 2 * sorted[mid + 1]
       ELSE sorted[mid] + sorted[mid + 1]

\* C18: for each non-identity column the average is the arithmetic mean of the
\* column's numeric values, unscaled, and the median is the middle element of
\* the ascending sort or the mean of the two middle elements (20 for 10, 20,
\* 30 and 25 for 10, 20, 30, 40); Ticker holds the markers "AVERAGE" and
\* "MEDIAN".
C18_MeanAndMedian ==
    Len(tableData) > 0
    => LET avg == averages(tableData, visibleColumns)
           med == medians(tableData, visibleColumns)
       IN /\ avg[Ticker] = MarkerAverage
          /\ med[Ticker] = MarkerMedian
          /\ \A col \in ValueColumns :
                LET ns == NumericValues(col)
                IN Len(ns) > 0
                   => /\ col \in DOMAIN avg
                      /\ avg[col].num * Len(ns) = Sum(ns) * avg[col].den
                      /\ 2 * med[col].num = TwiceMedianOf(ns) * med[col].den
          /\ (tableData = DataOdd /\ Price \in ValueColumns)
                => med[Price] = Quotient(20 * Scale, 1)
          /\ (tableData = DataEven /\ Price \in ValueColumns)
                => med[Price] = Quotient(50 * Scale, 2)

\* The rows of the table whose cell in col is not missing.
PresentRows(col) ==
    LET Present(row) == ~IsMissing(Get(row, col)) IN SelectSeq(tableData, Present)

\* C19: a column in which no row holds a numeric value is left out of the
\* averages and of the medians, and missing, null and empty cells contribute
\* no value to a column's average or median.
C19_MissingCellsLeftOut ==
    Len(tableData) > 0
    => \A col \in ValueColumns :
          /\ Len(NumericValues(col)) = 0
             => /\ col \notin DOMAIN averages(tableData, visibleColumns)
                /\ col \notin DOMAIN medians(tableData, visibleColumns)
          /\ ColumnNumbers(tableData, col) = ColumnNumbers(PresentRows(col), col)

Ascending(c) == [column |-> c, direction |-> "asc"]
Descending(c) == [column |-> c, direction |-> "desc"]

\* The sort state after toggling column c, as the three-state machine has it.
Toggled(c) ==
    IF sortConfig = NoSort THEN sortConfig' = Ascending(c)
    ELSE IF sortConfig.column # c THEN sortConfig' = Ascending(c)
    ELSE IF sortConfig = Ascending(c) THEN sortConfig' = Descending(c)
    ELSE sortConfig' = NoSort

\* C20: the sort state is a three-state machine: toggling column c from
\* unsorted gives ascending on c, toggling it again gives descending on c, a
\* third toggle gives unsorted, and toggling another column gives ascending on
\* that column from any state; in the unsorted state the rows are shown in
\* their input order.
C20_ThreeStateSort ==
    /\ [](sortConfig = NoSort => sortedData = tableData)
    /\ [](sortConfig # NoSort => sortConfig.direction \in {"asc", "desc"})
    /\ [][sortConfig' # sortConfig
            => \E c \in Range(allColumns(tableData, visibleColumns)) : Toggled(c)]_vars

\* A table sorted descending on Price, two toggles after the first render,
\* whose rows are shown in another order than the input's.
C20_Witness ==
    /\ sortConfig = Descending(Price)
    /\ Len(tableData) > 1
    /\ sortedData # tableData

\* The orders the sort can produce: the comparator is not antisymmetric on two
\* missing values, so the order depends on how the sort hands it the pairs.
SortOutcomes == {SortRows(tableData, sortConfig), SortRowsFlipped(tableData, sortConfig)}

\* No row with a missing value in col stands before a row with a present one.
MissingLast(rows, col) ==
    \A i, j \in 1..Len(rows) :
        (i < j /\ IsMissing(Get(rows[i], col))) => IsMissing(Get(rows[j], col))

\* C21: in the sorted output, ascending and descending alike, no row whose
\* value in the sort column is missing (undefined, null or '') stands before a
\* row whose value is present, for any number of missing values; 5, null, 1
\* ascending gives 1, 5, null.
C21_MissingLast ==
    sortConfig # NoSort
    => /\ sortedData \in SortOutcomes
       /\ \A out \in SortOutcomes : MissingLast(out, sortConfig.column)
       /\ (tableData = DataNullInside /\ sortConfig = Ascending(Price))
             => \A out \in SortOutcomes :
                   out = <<DataNullInside[3], DataNullInside[1], DataNullInside[2]>>

\* Three missing values ahead of and between two numbers, sorted descending.
C21_Witness ==
    /\ tableData = DataGaps
    /\ sortConfig = Descending(Price)
    /\ ~MissingLast(tableData, Price)
    /\ Get(sortedData[1], Price) = NumV(300)

----------------------------------------------------------------------------
(* Properties of the criteria list *)

CriteriaIds(list) == {list[j].id : j \in 1..Len(list)}

\* C22: criterion ids are unique and never reused: the ids of the criteria in
\* the list are pairwise distinct after any sequence of add, update and
\* remove, and a newly added criterion never receives an id that a criterion
\* before it had.
C22_UniqueIds ==
    /\ [](\A i, j \in 1..Len(criteria) : criteria[i].id = criteria[j].id => i = j)
    /\ [][Len(criteria') > Len(criteria)
            => criteria'[Len(criteria')].id \notin CriteriaIds(criteria)]_vars

\* C23: the visible columns of the Overview table are the default columns and
\* the column of every criterion whose active flag is true; the column of a
\* criterion whose active flag is false is not added on its account.
C23_ActiveColumnsVisible ==
    /\ Range(overviewVisibleColumns)
         = Range(DEFAULT_COLUMNS)
             \cup {criteria[j].column : j \in {i \in 1..Len(criteria) : criteria[i].active}}
    /\ \A j \in 1..Len(criteria) :
          (/\ ~criteria[j].active
           /\ criteria[j].column \notin Range(DEFAULT_COLUMNS)
           /\ \A i \in 1..Len(criteria) :
                 criteria[i].active => criteria[i].column # criteria[j].column)
          => criteria[j].column \notin Range(overviewVisibleColumns)

\* An active criterion on one column and an inactive one on another.
C23_Witness ==
    \E i, j \in 1..Len(criteria) :
        /\ criteria[i].active
        /\ ~criteria[j].active
        /\ criteria[i].column # criteria[j].column
        /\ criteria[i].column \in Range(overviewVisibleColumns)
        /\ criteria[j].column \notin Range(overviewVisibleColumns)

\* The criteria of the list whose id is not id, in the order of the list.
Others(list, id) ==
    LET keep == {i \in 1..Len(list) : list[i].id # id}
        Nth(j) == CHOOSE i \in keep : Cardinality({m \in keep : m <= i}) = j
    IN [j \in 1..Cardinality(keep) |-> list[Nth(j)]]

\* The step leaves every criterion whose id is not id as it was, each at its
\* place, and the list as long as it was.
OnlyChanges(id) ==
    /\ Len(criteria') = Len(criteria)
    /\ \A i \in 1..Len(criteria) :
          /\ criteria'[i].id = criteria[i].id
          /\ criteria[i].id # id => criteria'[i] = criteria[i]

\* C25: the operations on the criteria list are by id and keep the rest:
\* an update changes only the criteria with the id and leaves every other
\* criterion and the order as they were, a removal deletes exactly the
\* criteria with the id and keeps the others in their order, and an addition
\* appends one criterion, active and without min, max and text, at the end.
C25_OperationsById ==
    [][/\ \A k \in 1..Len(criteria) :
             /\ \A field \in Fields :
                   \A value \in FieldInputs(criteria[k], field, data) :
                       updateCriterion(k, field, value)
                       => /\ OnlyChanges(criteria[k].id)
                          /\ criteria' # criteria
             /\ updateCriterionDirectly(k) => OnlyChanges(criteria[k].id)
             /\ removeCriterion(k) => criteria' = Others(criteria, criteria[k].id)
       /\ \A id \in Ids :
             addCriterion(id)
             => /\ Len(criteria') = Len(criteria) + 1
                /\ SubSeq(criteria', 1, Len(criteria)) = criteria
                /\ LET added == criteria'[Len(criteria')]
                   IN /\ added.id = id
                      /\ added.active
                      /\ added.min = None /\ added.max = None /\ added.text = None
      ]_vars

\* Two criteria of different ids, the first with a bound an update set, the
\* second as it was added.
C25_Witness ==
    /\ Len(criteria) > 1
    /\ criteria[1].id # criteria[2].id
    /\ criteria[1].min.def
    /\ criteria[2] = newCriterion(criteria[2].id, columns(data))

C27_EditsStayTemporary ==
    [][/\ \A field \in Fields :
             \A value \in EditorInputs(editingState.tempCriterion, field, data) :
                 updateTempCriterion(field, value)
                 => /\ criteria' = criteria
                    /\ FilteredData(data', criteria') = filteredData
                    /\ editingState'.id = editingState.id
                    /\ editingState'.tempCriterion # editingState.tempCriterion
       /\ \A k \in 1..Len(criteria) : startEditing(k) => criteria' = criteria
       /\ saveEditing
             => /\ Len(criteria') = Len(criteria)
                /\ \A i \in 1..Len(criteria) :
                      criteria'[i] = IF criteria[i].id = editingState.id
                                     THEN editingState.tempCriterion
                                     ELSE criteria[i]
                /\ editingState' = NoEditing
       /\ \A k \in 1..Len(criteria) :
             (removeCriterionAndClose(k) /\ isEditing(criteria[k]))
             => editingState' = NoEditing
      ]_vars

\* Two criteria, one of them under edit with a bound typed into the temporary
\* copy that the list does not hold, and every row still in the filtered rows.
C27_Witness ==
    /\ Len(criteria) > 1
    /\ criteria[1].id # criteria[2].id
    /\ isEditing(criteria[2])
    /\ editingState.tempCriterion.min = Some(<<"3", "0">>)
    /\ criteria[2].min = None
    /\ HasMaxFilter(criteria[1])
    /\ filteredData # data

----------------------------------------------------------------------------
(* Properties of the persistence *)

\* Two row lists that hold the same value in every column of every row; a
\* property whose value is undefined reads as a property the row does not
\* have.
SameRows(a, b) ==
    /\ Len(a) = Len(b)
    /\ \A i \in 1..Len(a) :
          \A col \in Range(ObjectKeys(a[i])) \cup Range(ObjectKeys(b[i])) :
              Get(a[i], col) = Get(b[i], col)

----------------------------------------------------------------------------
(* Properties of the analysis page *)

\* C28: with overlapping chart loads, once every pending fetch has completed
\* the chart shown is the result of the fetch for the latest selected ticker
\* and range, chartLoading is false only when no fetch is pending, and every
\* load started sets chartLoading to false in the end.
C28_LatestChartShown ==
    /\ []((pending = <<>> /\ chartData # NoChart)
            => chartData = [sym |-> selectedTicker, range |-> timeFilter])
    /\ [](~chartLoading => pending = <<>>)
    /\ [](chartLoading => <>(~chartLoading))

NoDuplicateComp == \A i, j \in 1..Len(compTickers) : compTickers[i] = compTickers[j] => i = j

OnlyUploadedComps == Range(compTickers) \subseteq Range(availableTickers(data))

SelectedLeftOut ==
    \A i \in 1..Len(comparableRows) : TickerOf(comparableRows[i]) # selectedTicker

\* C30: after any sequence of handleAddComp and removeComp the list of
\* comparables holds no ticker twice and only tickers of the uploaded rows,
\* and the comparable rows, from which the average and the median are
\* computed, never include the row of the selected ticker.
C30_ComparablesWellFormed ==
    /\ NoDuplicateComp
    /\ OnlyUploadedComps
    /\ SelectedLeftOut

----------------------------------------------------------------------------
(* Properties of the charts page *)

\* C29: after any sequence of addChart and removeChart from the single
\* default chart the list of charts is never empty, the removal of the last
\* chart being without effect, and the ids of the charts are pairwise
\* distinct.
C29_ChartsNeverEmpty ==
    /\ [](Len(charts) > 0)
    /\ [](\A i, j \in 1..Len(charts) : charts[i].id = charts[j].id => i = j)
    /\ [][\A id \in ChartIds : (removeChart(id) /\ Len(charts) = 1) => charts' = charts]_vars

\* Charts 2 and 4 are what is left after removals, among them the one of the
\* default chart, and the next chart to be added gets the id 5.
C29_Witness ==
    /\ Len(charts) > 1
    /\ charts[1].id = <<"2">>
    /\ charts[2].id = <<"4">>
    /\ newId(charts) = <<"5">>

====
